---- MODULE Spec2Model ----
(***************************************************************************)
(* Model of the photo synchroniser: the metadata store (store.rs), the     *)
(* digest engine (digest.rs) and the three phases of main.rs, run          *)
(* repeatedly against a persisted store and three directory trees.         *)
(***************************************************************************)
EXTENDS Integers, Sequences, FiniteSets, TLC

\* ------------------------------------------------------------------ bounds
MaxTick == 2          \* file modification times range over 0..MaxTick ticks
MaxRuns == 2          \* number of runs of main
NumWorkers == 2       \* size of the rayon pool
MaxEnv == 1           \* changes made to the trees by other programs
MaxLen == 4           \* length of the byte sequences written through a DigestWriter

\* sub-second resolution of SystemTime: ticks per whole second
TicksPerSec == 2

Paths == {"a", "b"}
\* WalkDir enumeration order of the source tree
SrcOrder == <<"a", "b">>
\* byte contents files can have
Contents == {<<1>>, <<0, 1>>}
\* a file somebody else put into the destination tree
ForeignContent == <<0>>

Ticks == 0..MaxTick

\* ------------------------------------------------------------ digest.rs
\* Sha256 as a collision-free fold over the bytes fed to it
Sha256_new == 0

RECURSIVE Sha256_update(_, _)
Sha256_update(h, bytes) ==
    IF bytes = <<>> THEN h
    ELSE Sha256_update(h * 3 + Head(bytes) + 1, Tail(bytes))

Sha256Hash(h) == <<h>>
NoDigest == <<>>

Sha256_finalize(h) == Sha256Hash(h)

\* digest(path): hash the whole file
digest(content) == Sha256_finalize(Sha256_update(Sha256_new, content))

\* DigestWriter over an inner writer that accumulates the bytes it is given
DigestWriter_new == [inner |-> <<>>, sha256 |-> Sha256_new]

\* write hashing the whole buffer instead of the bytes the inner writer took
DigestWriter_write_wholeBuf(w, buf, written) ==
    [inner  |-> w.inner \o SubSeq(buf, 1, written),
     sha256 |-> Sha256_update(w.sha256, buf)]

\* one call of write: the inner writer accepts the first `written` bytes
DigestWriter_write(w, buf, written) ==
    [inner  |-> w.inner \o SubSeq(buf, 1, written),
     sha256 |-> IF written > 0
                THEN Sha256_update(w.sha256, SubSeq(buf, 1, written))
                ELSE w.sha256]

DigestWriter_finalise(w) == Sha256_finalize(w.sha256)

\* io::copy of the whole content through a DigestWriter
io_copy(content) == DigestWriter_write(DigestWriter_new, content, Len(content))

\* ------------------------------------------------------------- store.rs
system_time_as_i64(t) == t \div TicksPerSec

i64_as_system_time(s) == s * TicksPerSec

Row(path, mtime, size, dg) ==
    [path |-> path, mtime |-> mtime, size |-> size, digest |-> dg]

\* INSERT INTO a table whose primary key is path
InsertRow(table, row) ==
    IF \E r \in table : r.path = row.path
    THEN [ok |-> FALSE, table |-> table]
    ELSE [ok |-> TRUE, table |-> table \cup {row}]

\* exists_in_old_target comparing the stored seconds with the raw time
exists_in_old_target_raw(table, path, last_modified, size) ==
    \E r \in table : /\ r.path = path
                     /\ r.mtime = last_modified
                     /\ r.size = size

\* the boolean query of store.rs: a row with this path, mtime and size
exists_in_old_target(table, path, last_modified, size) ==
    \E r \in table : /\ r.path = path
                     /\ r.mtime = system_time_as_i64(last_modified)
                     /\ r.size = size

\* the tri-state result main.rs matches on
legacy_lookup(table, path, last_modified, size) ==
    IF exists_in_old_target(table, path, last_modified, size)
    THEN [tag |-> "Transferred"]
    ELSE IF \E r \in table : r.path = path
    THEN LET r == CHOOSE x \in table : x.path = path
         IN [tag |-> "NewMetadata",
             last_modified |-> i64_as_system_time(r.mtime),
             size |-> r.size,
             digest |-> r.digest]
    ELSE [tag |-> "New"]

mark_exists_in_old_target(table, path, last_modified, size, dg) ==
    InsertRow(table, Row(path, system_time_as_i64(last_modified), size, dg))

all_target_digests(oldT, srcT) ==
    {r.digest : r \in oldT} \cup {r.digest : r \in srcT}

\* exists_in_target over a view that leaves out old_target_files
exists_in_target_onlySource(oldT, srcT, dg) == dg \in {r.digest : r \in srcT}

\* exists_in_target with the WHERE clause left out: any row of the view
exists_in_target_anyRow(oldT, srcT, dg) == all_target_digests(oldT, srcT) # {}

exists_in_target(oldT, srcT, dg) == dg \in all_target_digests(oldT, srcT)

\* was_transferred_from_source comparing the stored seconds with the raw time
was_transferred_from_source_raw(table, path, last_modified, size) ==
    IF \E r \in table : r.path = path
    THEN LET r == CHOOSE x \in table : x.path = path
         IN IF r.mtime = last_modified /\ r.size = size
            THEN [tag |-> "Transferred"]
            ELSE [tag |-> "NewMetadata",
                  last_modified |-> i64_as_system_time(r.mtime),
                  size |-> r.size]
    ELSE [tag |-> "New"]

was_transferred_from_source(table, path, last_modified, size) ==
    IF \E r \in table : r.path = path
    THEN LET r == CHOOSE x \in table : x.path = path
         IN IF r.mtime = system_time_as_i64(last_modified) /\ r.size = size
            THEN [tag |-> "Transferred"]
            ELSE [tag |-> "NewMetadata",
                  last_modified |-> i64_as_system_time(r.mtime),
                  size |-> r.size]
    ELSE [tag |-> "New"]

mark_transferred_from_source(table, path, dg, last_modified, size) ==
    InsertRow(table, Row(path, system_time_as_i64(last_modified), size, dg))


\* ------------------------------------------------------------------ state
VARIABLES
    oldFs,              \* legacy archive: set of [path, mtime, content]
    inFs,               \* source tree: set of [path, mtime, content, mode]
    outFs,              \* destination tree: set of [path, content, perm]
    old_target_files,   \* table old_target_files
    source_files,       \* table source_files
    pc,                 \* where main is: idle, p1, p2, p3, done, failed, crashed
    runs,               \* runs of main started so far
    p1,                 \* phase 1 closure per legacy path
    files_processed,
    bytes_processed,
    p1err,              \* the error try_for_each returned
    result,             \* phase 2: candidate list
    failures,           \* phase 2: manual-review list
    p2idx,              \* phase 2: position in the walk
    p3,                 \* phase 3 closure per candidate
    p3err,              \* the error collect() saved
    files_considered,
    bytes_stored,
    bytes_considered,
    startOld,           \* history: old_target_files when the run started
    startSrc,           \* history: source_files when the run started
    startOut,           \* history: destination tree when the run started
    prevEnd,            \* history: how the previous run ended
    legacyClean,        \* history: legacy archive untouched since a complete phase 1
    startClean,         \* history: legacyClean when the run started
    envSteps,           \* history: changes made to the trees so far
    api,                \* the last call made to the store directly, with its result
    dw,                 \* a DigestWriter being written to, with the bytes to write
    temp_dir,           \* staging directory: set of [name, content]
    writer              \* phase 3 closure locals in_data, temp_path, writer per candidate

vars == <<oldFs, inFs, outFs, old_target_files, source_files, pc, runs,
          p1, files_processed, bytes_processed, p1err,
          result, failures, p2idx,
          p3, p3err, files_considered, bytes_stored, bytes_considered,
          startOld, startSrc, startOut, prevEnd, legacyClean, startClean,
          envSteps, api, dw, temp_dir, writer>>

fsVars == <<oldFs, inFs, outFs>>
storeVars == <<old_target_files, source_files>>
p1Vars == <<p1, files_processed, bytes_processed, p1err>>
p2Vars == <<result, failures, p2idx>>
p3Vars == <<p3, p3err, files_considered, bytes_stored, bytes_considered>>
histVars == <<startOld, startSrc, startOut, prevEnd, startClean>>
runVars == <<histVars, envSteps>>
tmpVars == <<temp_dir, writer>>
auxVars == <<api, dw, tmpVars>>

HasFile(fs, path) == \E f \in fs : f.path = path
FileAt(fs, path) == CHOOSE f \in fs : f.path = path
RowAt(table, path) == CHOOSE r \in table : r.path = path

\* metadata.size() / metadata.len()
FileSize(f) == Len(f.content)

NoErr == [kind |-> "none"]
IntegrityErr(path) == [kind |-> "integrity", path |-> path]
ConstraintErr(path) == [kind |-> "constraint", table_path |-> path]
ExistsErr(path) == [kind |-> "exists", path |-> path]

NoRes == [tag |-> "None"]
P1Idle == [st |-> "none", res |-> NoRes, digest |-> NoDigest, err |-> NoErr]
P1Todo == [st |-> "todo", res |-> NoRes, digest |-> NoDigest, err |-> NoErr]
P3Idle == [st |-> "none", temp |-> <<>>, digest |-> NoDigest,
           already_exists |-> FALSE, outcome |-> "None", err |-> NoErr]
P3Todo == [P3Idle EXCEPT !.st = "todo"]

Stopped == {"idle", "done", "failed", "crashed"}

\* no direct call of the store has been made
NoCall == [op |-> "none"]
\* no DigestWriter is in use
NoWriter == [data |-> <<>>, pos |-> 0, w |-> DigestWriter_new, hash |-> NoDigest,
             short |-> FALSE, zero |-> FALSE]

\* a closure that holds no staging file and has read nothing
NoTemp == [temp_path |-> 0, pos |-> 0, sha256 |-> Sha256_new]

SrcModes == {"ok", "noopen", "nocopy"}

LegacyFile(path, content) == [path |-> path, mtime |-> 0, content |-> content]
SourceFile(path, content, mode) ==
    [path |-> path, mtime |-> 0, content |-> content, mode |-> mode]

\* the legacy archive before the first run: empty, one file, or two files
InitOldFs ==
    { {},
      {LegacyFile("a", <<1>>)},
      {LegacyFile("a", <<1>>), LegacyFile("b", <<0, 1>>)} }

\* the source tree before the first run: two files, equal or different bytes,
\* the first of them readable, unopenable or failing while being read
InitInFs ==
    { {SourceFile("a", <<1>>, m), SourceFile("b", c, "ok")} :
        m \in SrcModes, c \in Contents }

\* the destination tree before the first run: empty, or holding a foreign file
InitOutFs ==
    { {}, {[path |-> "a", content |-> ForeignContent, perm |-> "foreign"]} }

\* main has not started: empty tables, nothing in progress
InitRun ==
    /\ old_target_files = {}
    /\ source_files = {}
    /\ pc = "idle"
    /\ runs = 0
    /\ p1 = [q \in Paths |-> P1Idle]
    /\ files_processed = 0
    /\ bytes_processed = 0
    /\ p1err = NoErr
    /\ result = <<>>
    /\ failures = <<>>
    /\ p2idx = 1
    /\ p3 = [q \in Paths |-> P3Idle]
    /\ p3err = NoErr
    /\ files_considered = 0
    /\ bytes_stored = 0
    /\ bytes_considered = 0
    /\ startOld = {}
    /\ startSrc = {}
    /\ startOut = outFs
    /\ prevEnd = "idle"
    /\ legacyClean = FALSE
    /\ startClean = FALSE
    /\ envSteps = 0
    /\ temp_dir = {}
    /\ writer = [q \in Paths |-> NoTemp]

Init ==
    /\ oldFs \in InitOldFs
    /\ inFs \in InitInFs
    /\ outFs \in InitOutFs
    /\ InitRun
    /\ api = NoCall
    /\ dw = NoWriter

\* ------------------------------------------------------ the environment
\* between runs, somebody touches a legacy file (same bytes, later mtime)
TouchLegacy(path, t) ==
    /\ pc \in Stopped
    /\ envSteps < MaxEnv
    /\ envSteps' = envSteps + 1
    /\ HasFile(oldFs, path)
    /\ t > FileAt(oldFs, path).mtime
    /\ oldFs' = (oldFs \ {FileAt(oldFs, path)})
                  \cup {[FileAt(oldFs, path) EXCEPT !.mtime = t]}
    /\ legacyClean' = FALSE
    /\ UNCHANGED <<inFs, outFs, storeVars, pc, runs, p1Vars, p2Vars, p3Vars, histVars>>
    /\ UNCHANGED auxVars

\* between runs, somebody rewrites a legacy file with other bytes
RewriteLegacy(path, t, content) ==
    /\ pc \in Stopped
    /\ envSteps < MaxEnv
    /\ envSteps' = envSteps + 1
    /\ HasFile(oldFs, path)
    /\ t > FileAt(oldFs, path).mtime
    /\ content # FileAt(oldFs, path).content
    /\ oldFs' = (oldFs \ {FileAt(oldFs, path)})
                  \cup {[path |-> path, mtime |-> t, content |-> content]}
    /\ legacyClean' = FALSE
    /\ UNCHANGED <<inFs, outFs, storeVars, pc, runs, p1Vars, p2Vars, p3Vars, histVars>>
    /\ UNCHANGED auxVars

\* between runs, somebody touches a source file
TouchSource(path, t) ==
    /\ pc \in Stopped
    /\ envSteps < MaxEnv
    /\ envSteps' = envSteps + 1
    /\ HasFile(inFs, path)
    /\ t > FileAt(inFs, path).mtime
    /\ inFs' = (inFs \ {FileAt(inFs, path)})
                 \cup {[FileAt(inFs, path) EXCEPT !.mtime = t]}
    /\ UNCHANGED <<oldFs, outFs, storeVars, pc, runs, p1Vars, p2Vars, p3Vars,
                   histVars, legacyClean>>
    /\ UNCHANGED auxVars

\* ------------------------------------------------------------------ main
\* main up to the WalkDir of phase 1: open the store, ensure_schema (which
\* keeps existing tables), enumerate the legacy files
StartRun ==
    /\ pc \in Stopped
    /\ runs < MaxRuns
    /\ pc' = "p1"
    /\ runs' = runs + 1
    /\ p1' = [q \in Paths |-> IF HasFile(oldFs, q) THEN P1Todo ELSE P1Idle]
    /\ files_processed' = 0
    /\ bytes_processed' = 0
    /\ p1err' = NoErr
    /\ result' = <<>>
    /\ failures' = <<>>
    /\ p2idx' = 1
    /\ p3' = [q \in Paths |-> P3Idle]
    /\ p3err' = NoErr
    /\ files_considered' = 0
    /\ bytes_stored' = 0
    /\ bytes_considered' = 0
    /\ startOld' = old_target_files
    /\ startSrc' = source_files
    /\ startOut' = outFs
    /\ prevEnd' = pc
    /\ startClean' = legacyClean
    /\ UNCHANGED <<fsVars, storeVars, legacyClean, envSteps>>
    /\ UNCHANGED auxVars

\* ------------------------------------------------------------- phase 1
P1InFlight == {q \in Paths : p1[q].st \in {"taken", "looked", "hashed"}}
P1Failed == {q \in Paths : p1[q].st = "err"}

\* P1Take in a pool that keeps feeding entries after a closure has failed
P1Take_noStop(path) ==
    /\ pc = "p1"
    /\ p1[path].st = "todo"
    /\ Cardinality(P1InFlight) < NumWorkers
    /\ p1' = [p1 EXCEPT ![path].st = "taken"]
    /\ files_processed' = files_processed + 1
    /\ UNCHANGED <<fsVars, storeVars, pc, runs, bytes_processed, p1err,
                   p2Vars, p3Vars, runVars, legacyClean>>
    /\ UNCHANGED auxVars

\* the worker picks the next path: fetch_add on files_processed, fs::metadata
P1Take(path) ==
    /\ pc = "p1"
    /\ p1[path].st = "todo"
    /\ P1Failed = {}
    /\ Cardinality(P1InFlight) < NumWorkers
    /\ p1' = [p1 EXCEPT ![path].st = "taken"]
    /\ files_processed' = files_processed + 1
    /\ UNCHANGED <<fsVars, storeVars, pc, runs, bytes_processed, p1err,
                   p2Vars, p3Vars, runVars, legacyClean>>
    /\ UNCHANGED auxVars

\* store.lock().exists_in_old_target(path, modified, size)
P1Lookup(path) ==
    /\ pc = "p1"
    /\ p1[path].st = "taken"
    /\ LET f == FileAt(oldFs, path)
           res == legacy_lookup(old_target_files, path, f.mtime, FileSize(f))
       IN p1' = [p1 EXCEPT ![path].res = res,
                           ![path].st = IF res.tag = "Transferred"
                                        THEN "done" ELSE "looked"]
    /\ UNCHANGED <<fsVars, storeVars, pc, runs, files_processed, bytes_processed,
                   p1err, p2Vars, p3Vars, runVars, legacyClean>>
    /\ UNCHANGED auxVars

\* the (last_modified, size) in scope where the match arm calls
\* mark_exists_in_old_target: the NewMetadata pattern rebinds both names
p1_mark_metadata(res, last_modified, size) ==
    IF res.tag = "NewMetadata"
    THEN [last_modified |-> res.last_modified, size |-> res.size]
    ELSE [last_modified |-> last_modified, size |-> size]

\* P1Digest without the ensure! on the recomputed digest
P1Digest_noEnsure(path) ==
    /\ pc = "p1"
    /\ p1[path].st = "looked"
    /\ LET f == FileAt(oldFs, path)
           md == p1_mark_metadata(p1[path].res, f.mtime, FileSize(f))
       IN /\ p1' = [p1 EXCEPT ![path].st = "hashed",
                              ![path].digest = digest(f.content)]
          /\ bytes_processed' = bytes_processed + md.size
    /\ UNCHANGED <<fsVars, storeVars, pc, runs, files_processed, p1err,
                   p2Vars, p3Vars, runVars, legacyClean>>
    /\ UNCHANGED auxVars

\* digest(&full_path), the ensure! of the NewMetadata arm, bytes_processed
P1Digest(path) ==
    /\ pc = "p1"
    /\ p1[path].st = "looked"
    /\ LET f == FileAt(oldFs, path)
           res == p1[path].res
           new_digest == digest(f.content)
           md == p1_mark_metadata(res, f.mtime, FileSize(f))
       IN IF res.tag = "NewMetadata" /\ res.digest # new_digest
          THEN /\ p1' = [p1 EXCEPT ![path].st = "err",
                                   ![path].digest = new_digest,
                                   ![path].err = IntegrityErr(path)]
               /\ UNCHANGED bytes_processed
          ELSE /\ p1' = [p1 EXCEPT ![path].st = "hashed",
                                   ![path].digest = new_digest]
               /\ bytes_processed' = bytes_processed + md.size
    /\ UNCHANGED <<fsVars, storeVars, pc, runs, files_processed, p1err,
                   p2Vars, p3Vars, runVars, legacyClean>>
    /\ UNCHANGED auxVars

\* store.lock().mark_exists_in_old_target(path, last_modified, size, digest)?
P1Mark(path) ==
    /\ pc = "p1"
    /\ p1[path].st = "hashed"
    /\ LET f == FileAt(oldFs, path)
           md == p1_mark_metadata(p1[path].res, f.mtime, FileSize(f))
           ins == mark_exists_in_old_target(old_target_files, path,
                                            md.last_modified, md.size,
                                            p1[path].digest)
       IN /\ old_target_files' = ins.table
          /\ p1' = IF ins.ok
                   THEN [p1 EXCEPT ![path].st = "done"]
                   ELSE [p1 EXCEPT ![path].st = "err",
                                   ![path].err = ConstraintErr(path)]
    /\ UNCHANGED <<fsVars, source_files, pc, runs, files_processed, bytes_processed,
                   p1err, p2Vars, p3Vars, runVars, legacyClean>>
    /\ UNCHANGED auxVars

\* position of a path in the enumeration order
RECURSIVE IndexOf(_, _)
IndexOf(seq, x) == IF Head(seq) = x THEN 1 ELSE 1 + IndexOf(Tail(seq), x)

\* P1Finish that does not wait for the closures still running
P1Finish_early ==
    /\ pc = "p1"
    /\ P1Failed = {}
    /\ \A q \in Paths : p1[q].st # "todo"
    /\ pc' = "p2"
    /\ p1err' = NoErr
    /\ legacyClean' = TRUE
    /\ UNCHANGED <<fsVars, storeVars, runs, p1, files_processed, bytes_processed,
                   p2Vars, p3Vars, runVars>>
    /\ UNCHANGED auxVars

\* try_for_each returns: Ok, or the error of the leftmost failed item
P1Finish ==
    /\ pc = "p1"
    /\ P1InFlight = {}
    /\ \/ P1Failed # {}
       \/ \A q \in Paths : p1[q].st \in {"none", "done"}
    /\ IF P1Failed = {}
       THEN /\ pc' = "p2"
            /\ p1err' = NoErr
            /\ legacyClean' = TRUE
       ELSE /\ pc' = "failed"
            /\ p1err' = p1[CHOOSE q \in P1Failed :
                             \A o \in P1Failed :
                                 IndexOf(SrcOrder, q) <= IndexOf(SrcOrder, o)].err
            /\ UNCHANGED legacyClean
    /\ UNCHANGED <<fsVars, storeVars, runs, p1, files_processed, bytes_processed,
                   p2Vars, p3Vars, runVars>>
    /\ UNCHANGED auxVars


\* ------------------------------------------------------------- phase 2
InSeq(seq, x) == \E i \in 1..Len(seq) : seq[i] = x

\* detect_match queueing a changed path for transfer again
detect_match_retransfer(res, path, res_list, fail_list) ==
    IF res.tag = "Transferred"
    THEN [result |-> res_list, failures |-> fail_list]
    ELSE [result |-> Append(res_list, path), failures |-> fail_list]

\* detect_match queueing every path it is given
detect_match_all(res, path, res_list, fail_list) ==
    [result |-> Append(res_list, path), failures |-> fail_list]

\* the match of detect_new_files on one lookup result
detect_match(res, path, res_list, fail_list) ==
    IF res.tag = "New"
    THEN [result |-> Append(res_list, path), failures |-> fail_list]
    ELSE IF res.tag = "Transferred"
    THEN [result |-> res_list, failures |-> fail_list]
    ELSE [result |-> res_list, failures |-> Append(fail_list, path)]

\* one iteration of the WalkDir loop of detect_new_files
P2Step ==
    /\ pc = "p2"
    /\ p2idx <= Len(SrcOrder)
    /\ LET path == SrcOrder[p2idx]
       IN IF HasFile(inFs, path)
          THEN LET f == FileAt(inFs, path)
                   res == was_transferred_from_source(source_files, path,
                                                      f.mtime, FileSize(f))
                   m == detect_match(res, path, result, failures)
               IN /\ result' = m.result
                  /\ failures' = m.failures
          ELSE UNCHANGED <<result, failures>>
    /\ p2idx' = p2idx + 1
    /\ UNCHANGED <<fsVars, storeVars, pc, runs, p1Vars, p3Vars, runVars, legacyClean>>
    /\ UNCHANGED auxVars

\* detect_new_files returns; main hands the list to transfer_new_files
P2Finish ==
    /\ pc = "p2"
    /\ p2idx > Len(SrcOrder)
    /\ pc' = "p3"
    /\ p3' = [q \in Paths |-> IF InSeq(result, q) THEN P3Todo ELSE P3Idle]
    /\ UNCHANGED <<fsVars, storeVars, runs, p1Vars, p2Vars, p3err, files_considered,
                   bytes_stored, bytes_considered, runVars, legacyClean>>
    /\ UNCHANGED auxVars

\* ------------------------------------------------------------- phase 3
P3InFlight == {q \in Paths : p3[q].st \in {"opened", "copied", "checked", "published"}}

\* File::open, fs::metadata, bytes_considered, NamedTempFile::new_in
P3Open(path) ==
    /\ pc = "p3"
    /\ p3[path].st = "todo"
    /\ p3err = NoErr
    /\ Cardinality(P3InFlight) < NumWorkers
    /\ LET f == FileAt(inFs, path)
       IN IF f.mode = "noopen"
          THEN /\ p3' = [p3 EXCEPT ![path].st = "done",
                                   ![path].outcome = "FailedToOpen"]
               /\ UNCHANGED bytes_considered
          ELSE /\ p3' = [p3 EXCEPT ![path].st = "opened"]
               /\ bytes_considered' = bytes_considered + FileSize(f)
    /\ UNCHANGED <<fsVars, storeVars, pc, runs, p1Vars, p2Vars, p3err,
                   files_considered, bytes_stored, runVars, legacyClean>>
    /\ UNCHANGED auxVars

\* P3Copy going on with the bytes it has after a failed copy
P3Copy_ignoreError(path) ==
    /\ pc = "p3"
    /\ p3[path].st = "opened"
    /\ LET f == FileAt(inFs, path)
           w == IF f.mode = "nocopy"
                THEN DigestWriter_write(DigestWriter_new, f.content, Len(f.content) - 1)
                ELSE io_copy(f.content)
       IN p3' = [p3 EXCEPT ![path].st = "copied",
                           ![path].temp = w.inner,
                           ![path].digest = DigestWriter_finalise(w)]
    /\ UNCHANGED <<fsVars, storeVars, pc, runs, p1Vars, p2Vars, p3err,
                   files_considered, bytes_stored, bytes_considered,
                   runVars, legacyClean>>
    /\ UNCHANGED auxVars

\* io::copy through the DigestWriter into the staging file, then finalise
P3Copy(path) ==
    /\ pc = "p3"
    /\ p3[path].st = "opened"
    /\ LET f == FileAt(inFs, path)
           w == io_copy(f.content)
       IN IF f.mode = "nocopy"
          THEN p3' = [p3 EXCEPT ![path].st = "done",
                                ![path].outcome = "FailedToCopy"]
          ELSE p3' = [p3 EXCEPT ![path].st = "copied",
                                ![path].temp = w.inner,
                                ![path].digest = DigestWriter_finalise(w)]
    /\ UNCHANGED <<fsVars, storeVars, pc, runs, p1Vars, p2Vars, p3err,
                   files_considered, bytes_stored, bytes_considered,
                   runVars, legacyClean>>
    /\ UNCHANGED auxVars

\* store.exists_in_target(&digest)
P3Check(path) ==
    /\ pc = "p3"
    /\ p3[path].st = "copied"
    /\ p3' = [p3 EXCEPT ![path].st = "checked",
                        ![path].already_exists =
                            exists_in_target(old_target_files, source_files,
                                             p3[path].digest)]
    /\ UNCHANGED <<fsVars, storeVars, pc, runs, p1Vars, p2Vars, p3err,
                   files_considered, bytes_stored, bytes_considered,
                   runVars, legacyClean>>
    /\ UNCHANGED auxVars

\* persist instead of persist_noclobber: the rename replaces the file
persist_clobber(fs, path, content) ==
    [ok |-> TRUE,
     fs |-> {f \in fs : f.path # path}
              \cup {[path |-> path, content |-> content, perm |-> "0600"]}]

\* temp_path.persist_noclobber(&out_path): fails when the path is taken
persist_noclobber(fs, path, content) ==
    IF HasFile(fs, path)
    THEN [ok |-> FALSE, fs |-> fs]
    ELSE [ok |-> TRUE,
          fs |-> fs \cup {[path |-> path, content |-> content, perm |-> "0600"]}]

\* fs::set_permissions(out_path, 0o644)
set_permissions(fs, path) ==
    {IF f.path = path THEN [f EXCEPT !.perm = "0644"] ELSE f : f \in fs}

\* the body of `if !already_exists`
P3Publish(path) ==
    /\ pc = "p3"
    /\ p3[path].st = "checked"
    /\ ~p3[path].already_exists
    /\ LET pub == persist_noclobber(outFs, path, p3[path].temp)
       IN IF pub.ok
          THEN /\ outFs' = set_permissions(pub.fs, path)
               /\ bytes_stored' = bytes_stored + FileSize(FileAt(inFs, path))
               /\ p3' = [p3 EXCEPT ![path].st = "published"]
               /\ UNCHANGED p3err
          ELSE /\ outFs' = pub.fs
               /\ p3' = [p3 EXCEPT ![path].st = "err",
                                   ![path].temp = <<>>,
                                   ![path].err = ExistsErr(path)]
               /\ p3err' = IF p3err = NoErr THEN ExistsErr(path) ELSE p3err
               /\ UNCHANGED bytes_stored
    /\ UNCHANGED <<oldFs, inFs, storeVars, pc, runs, p1Vars, p2Vars,
                   files_considered, bytes_considered, runVars, legacyClean>>
    /\ UNCHANGED auxVars

\* P3Record with the record written only for a published file
P3Record_onlyPublished(path) ==
    /\ pc = "p3"
    /\ \/ p3[path].st = "published"
       \/ p3[path].st = "checked" /\ p3[path].already_exists
    /\ LET f == FileAt(inFs, path)
           ins == IF p3[path].st = "published"
                  THEN mark_transferred_from_source(source_files, path,
                                                    p3[path].digest, f.mtime, FileSize(f))
                  ELSE [ok |-> TRUE, table |-> source_files]
       IN /\ source_files' = ins.table
          /\ IF ins.ok
             THEN /\ p3' = [p3 EXCEPT ![path].st = "done",
                                      ![path].temp = <<>>,
                                      ![path].outcome = "Success"]
                  /\ files_considered' = files_considered + 1
                  /\ UNCHANGED p3err
             ELSE /\ p3' = [p3 EXCEPT ![path].st = "err",
                                      ![path].temp = <<>>,
                                      ![path].err = ConstraintErr(path)]
                  /\ p3err' = IF p3err = NoErr THEN ConstraintErr(path) ELSE p3err
                  /\ UNCHANGED files_considered
    /\ UNCHANGED <<fsVars, old_target_files, pc, runs, p1Vars, p2Vars,
                   bytes_stored, bytes_considered, runVars, legacyClean>>
    /\ UNCHANGED auxVars

\* store.mark_transferred_from_source(path, &digest, modified, size)?, then
\* files_considered and Ok(FileOutcome::Success)
P3Record(path) ==
    /\ pc = "p3"
    /\ \/ p3[path].st = "published"
       \/ p3[path].st = "checked" /\ p3[path].already_exists
    /\ LET f == FileAt(inFs, path)
           ins == mark_transferred_from_source(source_files, path, p3[path].digest,
                                               f.mtime, FileSize(f))
       IN /\ source_files' = ins.table
          /\ IF ins.ok
             THEN /\ p3' = [p3 EXCEPT ![path].st = "done",
                                      ![path].temp = <<>>,
                                      ![path].outcome = "Success"]
                  /\ files_considered' = files_considered + 1
                  /\ UNCHANGED p3err
             ELSE /\ p3' = [p3 EXCEPT ![path].st = "err",
                                      ![path].temp = <<>>,
                                      ![path].err = ConstraintErr(path)]
                  /\ p3err' = IF p3err = NoErr THEN ConstraintErr(path) ELSE p3err
                  /\ UNCHANGED files_considered
    /\ UNCHANGED <<fsVars, old_target_files, pc, runs, p1Vars, p2Vars,
                   bytes_stored, bytes_considered, runVars, legacyClean>>
    /\ UNCHANGED auxVars

\* collect() returns: the failure report and Ok, or the saved error
P3Finish ==
    /\ pc = "p3"
    /\ P3InFlight = {}
    /\ \/ p3err # NoErr
       \/ \A q \in Paths : p3[q].st \in {"none", "done"}
    /\ pc' = IF p3err = NoErr THEN "done" ELSE "failed"
    /\ UNCHANGED <<fsVars, storeVars, runs, p1Vars, p2Vars, p3Vars, runVars, legacyClean>>
    /\ UNCHANGED auxVars

\* the process is stopped while phase 3 is running
Crash ==
    /\ pc = "p3"
    /\ pc' = "crashed"
    /\ UNCHANGED <<fsVars, storeVars, runs, p1Vars, p2Vars, p3Vars, runVars, legacyClean>>
    /\ UNCHANGED auxVars

\* ------------------------------------------------------------------ spec
Next ==
    \/ StartRun
    \/ \E q \in Paths : P1Take(q)
    \/ \E q \in Paths : P1Lookup(q)
    \/ \E q \in Paths : P1Digest(q)
    \/ \E q \in Paths : P1Mark(q)
    \/ P1Finish
    \/ P2Step
    \/ P2Finish
    \/ \E q \in Paths : P3Open(q)
    \/ \E q \in Paths : P3Copy(q)
    \/ \E q \in Paths : P3Check(q)
    \/ \E q \in Paths : P3Publish(q)
    \/ \E q \in Paths : P3Record(q)
    \/ P3Finish
    \/ Crash
    \/ \E q \in Paths, t \in Ticks : TouchLegacy(q, t)
    \/ \E q \in Paths, t \in Ticks, c \in Contents : RewriteLegacy(q, t, c)
    \/ \E q \in Paths, t \in Ticks : TouchSource(q, t)

Spec == Init /\ [][Next]_vars


\* ------------------------------------------------ the store on its own
\* The store called directly, as by its unit test: each action is one call
\* of a public operation, with its arguments and its result kept in api.
DigestsAsked == {digest(c) : c \in Contents \cup {ForeignContent}}
SizesAsked == {Len(c) : c \in Contents}

StoreInit ==
    /\ oldFs = {}
    /\ inFs = {}
    /\ outFs = {}
    /\ InitRun
    /\ api = NoCall
    /\ dw = NoWriter

Call(op, path, mtime, size, dg, res) ==
    [op |-> op, path |-> path, mtime |-> mtime, size |-> size, digest |-> dg,
     res |-> res]

CallLegacyLookup(path, t, size) ==
    /\ api' = Call("legacy_lookup", path, t, size, NoDigest,
                   exists_in_old_target(old_target_files, path, t, size))
    /\ UNCHANGED <<fsVars, storeVars, pc, runs, p1Vars, p2Vars, p3Vars, runVars,
                   legacyClean, dw, tmpVars>>

CallLegacyRecord(path, t, content) ==
    /\ LET ins == mark_exists_in_old_target(old_target_files, path, t,
                                            Len(content), digest(content))
       IN /\ old_target_files' = ins.table
          /\ api' = Call("legacy_record", path, t, Len(content), digest(content),
                         ins.ok)
    /\ UNCHANGED <<fsVars, source_files, pc, runs, p1Vars, p2Vars, p3Vars, runVars,
                   legacyClean, dw, tmpVars>>

CallTargetHasDigest(dg) ==
    /\ api' = Call("target_has_digest", "", 0, 0, dg,
                   exists_in_target(old_target_files, source_files, dg))
    /\ UNCHANGED <<fsVars, storeVars, pc, runs, p1Vars, p2Vars, p3Vars, runVars,
                   legacyClean, dw, tmpVars>>

CallTransferLookup(path, t, size) ==
    /\ api' = Call("transfer_lookup", path, t, size, NoDigest,
                   was_transferred_from_source(source_files, path, t, size))
    /\ UNCHANGED <<fsVars, storeVars, pc, runs, p1Vars, p2Vars, p3Vars, runVars,
                   legacyClean, dw, tmpVars>>

CallTransferRecord(path, t, content) ==
    /\ LET ins == mark_transferred_from_source(source_files, path, digest(content),
                                               t, Len(content))
       IN /\ source_files' = ins.table
          /\ api' = Call("transfer_record", path, t, Len(content), digest(content),
                         ins.ok)
    /\ UNCHANGED <<fsVars, old_target_files, pc, runs, p1Vars, p2Vars, p3Vars, runVars,
                   legacyClean, dw, tmpVars>>

StoreNext ==
    \/ \E q \in Paths, t \in Ticks, n \in SizesAsked : CallLegacyLookup(q, t, n)
    \/ \E q \in Paths, t \in Ticks, c \in Contents : CallLegacyRecord(q, t, c)
    \/ \E d \in DigestsAsked : CallTargetHasDigest(d)
    \/ \E q \in Paths, t \in Ticks, n \in SizesAsked : CallTransferLookup(q, t, n)
    \/ \E q \in Paths, t \in Ticks, c \in Contents : CallTransferRecord(q, t, c)

StoreSpec == StoreInit /\ [][StoreNext]_vars

\* ----------------------------------------- a DigestWriter on its own
\* A byte sequence written through a DigestWriter in any split into write
\* calls: each call offers the next n bytes, the inner writer takes the first
\* k of them, and the caller goes on after the bytes taken.
Bytes == {0, 1}
ByteSeqs == UNION {[1..k -> Bytes] : k \in 0..MaxLen}

DigestInit ==
    /\ oldFs = {}
    /\ inFs = {}
    /\ outFs = {}
    /\ InitRun
    /\ api = NoCall
    /\ dw \in {[NoWriter EXCEPT !.data = d] : d \in ByteSeqs}

DwWrite(n, k) ==
    /\ dw.hash = NoDigest
    /\ dw.pos + n <= Len(dw.data)
    /\ k <= n
    /\ dw' = [dw EXCEPT
                !.w = DigestWriter_write(dw.w, SubSeq(dw.data, dw.pos + 1, dw.pos + n), k),
                !.pos = dw.pos + k,
                !.short = dw.short \/ k < n,
                !.zero = dw.zero \/ n = 0]
    /\ UNCHANGED <<fsVars, storeVars, pc, runs, p1Vars, p2Vars, p3Vars, runVars,
                   legacyClean, api, tmpVars>>

DwFinalise ==
    /\ dw.hash = NoDigest
    /\ dw.pos = Len(dw.data)
    /\ dw' = [dw EXCEPT !.hash = DigestWriter_finalise(dw.w)]
    /\ UNCHANGED <<fsVars, storeVars, pc, runs, p1Vars, p2Vars, p3Vars, runVars,
                   legacyClean, api, tmpVars>>

DigestNext ==
    \/ \E n \in 0..MaxLen, k \in 0..MaxLen : DwWrite(n, k)
    \/ DwFinalise

DigestSpec == DigestInit /\ [][DigestNext]_vars

\* ------------------------------------- transfer_new_files on its own
\* Phase 3 called on a candidate list, at the grain of the single calls of
\* its closure: the staging file is a named file of temp_dir, io::copy
\* fills it one write at a time, and persist_noclobber renames it.
TempNames == 1..NumWorkers

TempFile(name, content) == [name |-> name, content |-> content]
TempAt(dir, name) == CHOOSE f \in dir : f.name = name
RemoveTemp(dir, name) == {f \in dir : f.name # name}

\* the source tree phase 3 reads: either file short or long, the first of
\* them readable, unopenable or failing while being read
TransferInFs ==
    { {SourceFile("a", ca, m), SourceFile("b", cb, "ok")} :
        ca \in Contents, cb \in Contents, m \in SrcModes }

\* the legacy archive phase 1 has indexed: nothing, or one file
TransferStores ==
    { [fs |-> {}, rows |-> {}],
      [fs |-> {LegacyFile("a", <<1>>)},
       rows |-> {Row("a", 0, Len(<<1>>), digest(<<1>>))}] }

\* main has called transfer_new_files with every source path as a candidate
TransferInit ==
    /\ \E st \in TransferStores : oldFs = st.fs /\ old_target_files = st.rows
    /\ inFs \in TransferInFs
    /\ outFs \in InitOutFs
    /\ source_files = {}
    /\ pc = "p3"
    /\ runs = 1
    /\ p1 = [q \in Paths |-> P1Idle]
    /\ files_processed = 0
    /\ bytes_processed = 0
    /\ p1err = NoErr
    /\ result = SrcOrder
    /\ failures = <<>>
    /\ p2idx = Len(SrcOrder) + 1
    /\ p3 = [q \in Paths |-> P3Todo]
    /\ p3err = NoErr
    /\ files_considered = 0
    /\ bytes_stored = 0
    /\ bytes_considered = 0
    /\ startOld = old_target_files
    /\ startSrc = {}
    /\ startOut = outFs
    /\ prevEnd = "idle"
    /\ legacyClean = TRUE
    /\ startClean = TRUE
    /\ envSteps = 0
    /\ api = NoCall
    /\ dw = NoWriter
    /\ temp_dir = {}
    /\ writer = [q \in Paths |-> NoTemp]

\* NamedTempFile::new_in taking any name, used or not
NamedTempFile_new_in_anyName(dir) == TempNames

\* NamedTempFile::new_in(temp_dir): the names the call can return, those
\* no file of the directory has
NamedTempFile_new_in(dir) == {n \in TempNames : \A f \in dir : f.name # n}

\* File::open, fs::metadata, bytes_considered, NamedTempFile::new_in,
\* DigestWriter::new
T3Open(path, name) ==
    /\ pc = "p3"
    /\ p3[path].st = "todo"
    /\ p3err = NoErr
    /\ Cardinality(P3InFlight) < NumWorkers
    /\ LET f == FileAt(inFs, path)
       IN IF f.mode = "noopen"
          THEN /\ p3' = [p3 EXCEPT ![path].st = "done",
                                   ![path].outcome = "FailedToOpen"]
               /\ UNCHANGED <<bytes_considered, tmpVars>>
          ELSE /\ name \in NamedTempFile_new_in(temp_dir)
               /\ p3' = [p3 EXCEPT ![path].st = "opened"]
               /\ bytes_considered' = bytes_considered + FileSize(f)
               /\ temp_dir' = RemoveTemp(temp_dir, name) \cup {TempFile(name, <<>>)}
               /\ writer' = [writer EXCEPT ![path] = [NoTemp EXCEPT !.temp_path = name]]
    /\ UNCHANGED <<fsVars, storeVars, pc, runs, p1Vars, p2Vars, p3err,
                   files_considered, bytes_stored, runVars, legacyClean, api, dw>>

\* the bytes of the source a read of in_data can return: all of them, or
\* all but the last when the read after them fails
Readable(f) == IF f.mode = "nocopy" THEN Len(f.content) - 1 ELSE Len(f.content)

\* one round of io::copy: read the bytes left, write to the DigestWriter,
\* whose inner writer, the staging file, takes the first k of them
T3Write(path, k) ==
    /\ pc = "p3"
    /\ p3[path].st = "opened"
    /\ LET f == FileAt(inFs, path)
           me == writer[path]
           tf == TempAt(temp_dir, me.temp_path)
           buf == SubSeq(f.content, me.pos + 1, Readable(f))
           w == DigestWriter_write([inner |-> tf.content, sha256 |-> me.sha256], buf, k)
       IN /\ me.pos < Readable(f)
          /\ k <= Len(buf)
          /\ temp_dir' = RemoveTemp(temp_dir, me.temp_path)
                           \cup {TempFile(me.temp_path, w.inner)}
          /\ writer' = [writer EXCEPT ![path].pos = me.pos + k,
                                      ![path].sha256 = w.sha256]
    /\ UNCHANGED <<fsVars, storeVars, pc, runs, p1Vars, p2Vars, p3Vars, runVars,
                   legacyClean, api, dw>>

\* io::copy returns Err: FailedToCopy, and temp_path is dropped with the
\* closure, which removes the staging file
T3CopyFailed(path) ==
    /\ pc = "p3"
    /\ p3[path].st = "opened"
    /\ FileAt(inFs, path).mode = "nocopy"
    /\ p3' = [p3 EXCEPT ![path].st = "done", ![path].outcome = "FailedToCopy"]
    /\ temp_dir' = RemoveTemp(temp_dir, writer[path].temp_path)
    /\ writer' = [writer EXCEPT ![path] = NoTemp]
    /\ UNCHANGED <<fsVars, storeVars, pc, runs, p1Vars, p2Vars, p3err,
                   files_considered, bytes_stored, bytes_considered, runVars,
                   legacyClean, api, dw>>

\* io::copy returns Ok at the end of the source, then writer.finalise()
T3Finalise(path) ==
    /\ pc = "p3"
    /\ p3[path].st = "opened"
    /\ FileAt(inFs, path).mode = "ok"
    /\ writer[path].pos = Len(FileAt(inFs, path).content)
    /\ p3' = [p3 EXCEPT ![path].st = "copied",
                        ![path].digest = Sha256_finalize(writer[path].sha256)]
    /\ UNCHANGED <<fsVars, storeVars, pc, runs, p1Vars, p2Vars, p3err,
                   files_considered, bytes_stored, bytes_considered, runVars,
                   legacyClean, auxVars>>

\* the body of `if !already_exists`: the staging file is renamed to the
\* destination path, or stays with the error value when the path is taken
T3Publish(path) ==
    /\ pc = "p3"
    /\ p3[path].st = "checked"
    /\ ~p3[path].already_exists
    /\ LET me == writer[path]
           pub == persist_noclobber(outFs, path, TempAt(temp_dir, me.temp_path).content)
       IN IF pub.ok
          THEN /\ outFs' = set_permissions(pub.fs, path)
               /\ temp_dir' = RemoveTemp(temp_dir, me.temp_path)
               /\ writer' = [writer EXCEPT ![path].temp_path = 0]
               /\ bytes_stored' = bytes_stored + FileSize(FileAt(inFs, path))
               /\ p3' = [p3 EXCEPT ![path].st = "published"]
               /\ UNCHANGED p3err
          ELSE /\ outFs' = pub.fs
               /\ p3' = [p3 EXCEPT ![path].st = "err",
                                   ![path].err = ExistsErr(path)]
               /\ p3err' = IF p3err = NoErr THEN ExistsErr(path) ELSE p3err
               /\ UNCHANGED <<bytes_stored, tmpVars>>
    /\ UNCHANGED <<oldFs, inFs, storeVars, pc, runs, p1Vars, p2Vars,
                   files_considered, bytes_considered, runVars, legacyClean, api, dw>>

\* store.mark_transferred_from_source(...)?, files_considered, Ok(Success);
\* a temp_path not persisted is dropped when the closure returns
T3Record(path) ==
    /\ pc = "p3"
    /\ \/ p3[path].st = "published"
       \/ p3[path].st = "checked" /\ p3[path].already_exists
    /\ LET f == FileAt(inFs, path)
           ins == mark_transferred_from_source(source_files, path, p3[path].digest,
                                               f.mtime, FileSize(f))
       IN /\ source_files' = ins.table
          /\ IF ins.ok
             THEN /\ p3' = [p3 EXCEPT ![path].st = "done",
                                      ![path].outcome = "Success"]
                  /\ files_considered' = files_considered + 1
                  /\ UNCHANGED p3err
             ELSE /\ p3' = [p3 EXCEPT ![path].st = "err",
                                      ![path].err = ConstraintErr(path)]
                  /\ p3err' = IF p3err = NoErr THEN ConstraintErr(path) ELSE p3err
                  /\ UNCHANGED files_considered
    /\ temp_dir' = RemoveTemp(temp_dir, writer[path].temp_path)
    /\ writer' = [writer EXCEPT ![path] = NoTemp]
    /\ UNCHANGED <<fsVars, old_target_files, pc, runs, p1Vars, p2Vars,
                   bytes_stored, bytes_considered, runVars, legacyClean, api, dw>>

\* collect() returns: the failure report and Ok, or the saved error, whose
\* staging file goes when main drops the error
T3Finish ==
    /\ pc = "p3"
    /\ P3InFlight = {}
    /\ \/ p3err # NoErr
       \/ \A q \in Paths : p3[q].st \in {"none", "done"}
    /\ pc' = IF p3err = NoErr THEN "done" ELSE "failed"
    /\ temp_dir' = {}
    /\ writer' = [q \in Paths |-> NoTemp]
    /\ UNCHANGED <<fsVars, storeVars, runs, p1Vars, p2Vars, p3Vars, runVars,
                   legacyClean, api, dw>>

TransferNext ==
    \/ \E q \in Paths, n \in TempNames : T3Open(q, n)
    \/ \E q \in Paths, k \in 1..MaxLen : T3Write(q, k)
    \/ \E q \in Paths : T3CopyFailed(q)
    \/ \E q \in Paths : T3Finalise(q)
    \/ \E q \in Paths : P3Check(q)
    \/ \E q \in Paths : T3Publish(q)
    \/ \E q \in Paths : T3Record(q)
    \/ T3Finish

TransferSpec == TransferInit /\ [][TransferNext]_vars

\* ----------------------------------------------------------------- claims
FilesAt(fs, path) == {f \in fs : f.path = path}
RowsAt(table, path) == {r \in table : r.path = path}

\* the lookup a path of the source tree gets with the metadata it has now
SrcLookup(table, path) ==
    was_transferred_from_source(table, path, FileAt(inFs, path).mtime,
                                FileSize(FileAt(inFs, path)))

\* the lookup a path of the legacy archive gets with the metadata it has now
OldLookup(table, path) ==
    legacy_lookup(table, path, FileAt(oldFs, path).mtime,
                  FileSize(FileAt(oldFs, path)))

\* files the program itself published into the destination tree
Published == {f \in outFs : f.perm = "0644"}

\* C1 (as claimed): two candidates with the same bytes and different paths
\* never both get published to the destination, whatever the interleaving
\* of the workers, and each of them has a ledger row once its closure is done.
C1_AtMostOneCopy ==
    /\ \A f, g \in Published : f.content = g.content => f.path = g.path
    /\ \A q \in Paths : p3[q].outcome = "Success" => RowsAt(source_files, q) # {}

\* C2: a path that had a ledger row when the run started, and whose source
\* metadata still match it, is classified Transferred by phase 2 (neither a
\* candidate nor on the review list), gets no phase 3 closure, and keeps its
\* ledger row and its destination file as they were at the start of the run.
C2_Handled(q) ==
    \E r \in startSrc :
        /\ r.path = q
        /\ r.mtime = FileAt(inFs, q).mtime \div TicksPerSec
        /\ r.size = Len(FileAt(inFs, q).content)

C2_Resumable ==
    \A q \in Paths :
        C2_Handled(q) =>
            /\ ~InSeq(result, q)
            /\ ~InSeq(failures, q)
            /\ p3[q].st = "none"
            /\ RowsAt(source_files, q) = RowsAt(startSrc, q)
            /\ FilesAt(outFs, q) = FilesAt(startOut, q)

\* C2 witness: the previous run was stopped in phase 3 after it had handled
\* some but not all paths; this run saw those as Transferred, transferred the
\* rest and finished.
C2_Witness ==
    /\ pc = "done"
    /\ prevEnd = "crashed"
    /\ \A f \in startOut : f.perm = "0644" => RowsAt(startSrc, f.path) # {}
    /\ \E q, x \in Paths :
        /\ C2_Handled(q)
        /\ RowsAt(startSrc, x) = {}
        /\ p3[x].outcome = "Success"

\* C3: when a phase 1 closure found a stored row with other metadata and the
\* recomputed digest differs from the stored one, the closure ends with the
\* integrity error naming the path, the row of the path is the one the run
\* started with, the run ends failed with an error of a failed closure (this
\* one, when it is the only one), and nothing of phases 2 and 3 has run.
C3_Mismatch(q) ==
    /\ p1[q].res.tag = "NewMetadata"
    /\ p1[q].digest # NoDigest
    /\ p1[q].digest # p1[q].res.digest

C4_Benign(q) ==
    /\ p1[q].res.tag = "NewMetadata"
    /\ p1[q].digest = p1[q].res.digest
    /\ p1[q].st \in {"done", "err"}

C4_BenignRefresh ==
    \A q \in Paths :
        pc = "p1" /\ C4_Benign(q) =>
            /\ p1[q].st = "done"
            /\ OldLookup(old_target_files, q).tag = "Transferred"

\* C5: a run that starts with the legacy archive unchanged since a complete
\* phase 1 finds every path Current, computes no digest, writes no legacy
\* row and raises no phase 1 error.
C5_Idempotent ==
    startClean =>
        /\ \A q \in Paths :
              /\ p1[q].st \in {"none", "todo", "taken", "done"}
              /\ p1[q].st = "done" => p1[q].res.tag = "Transferred"
              /\ p1[q].digest = NoDigest
        /\ bytes_processed = 0
        /\ old_target_files = startOld
        /\ p1err = NoErr

\* C5 witness: the second phase 1 over an indexed archive has finished.
C5_Witness ==
    /\ startClean
    /\ pc = "p2"
    /\ startOld # {}
    /\ \A q \in Paths : HasFile(oldFs, q) => p1[q].st = "done"

\* C6: a file that was in the destination tree when the run started is
\* still there unchanged; a candidate whose digest is not in the index and
\* whose destination path is taken ends with the publish error, which makes
\* the phase fail, and is never published or recorded.
C6_NoClobber ==
    /\ \A f \in startOut : f \in outFs
    /\ \A q \in Paths :
          /\ p3[q].st \in {"published", "done", "err"}
          /\ p3[q].digest # NoDigest
          /\ ~p3[q].already_exists
          /\ HasFile(startOut, q)
          => /\ p3[q].st = "err"
             /\ p3[q].err = ExistsErr(q)
             /\ p3err # NoErr
             /\ RowsAt(source_files, q) = {}

\* C6 witness: a run failed on a destination path that was taken.
C6_Witness ==
    /\ pc = "failed"
    /\ \E q \in Paths :
          /\ p3[q].err = ExistsErr(q)
          /\ FileAt(outFs, q).content # FileAt(inFs, q).content

\* C7: a candidate that could not be opened or copied ends as a reported
\* failure without an error of its own, has nothing published and no ledger
\* row (its lookup is still New), leaves the staging file unpublished, and a
\* failed phase 3 has another closure to blame; a finished phase 3 has
\* processed every other candidate.
C7_Failed(q) == p3[q].outcome \in {"FailedToOpen", "FailedToCopy"}

C7_Recoverable ==
    \A q \in Paths :
        FileAt(inFs, q).mode # "ok" /\ p3[q].st \notin {"none", "todo", "opened"} =>
            /\ C7_Failed(q)
            /\ p3[q].st = "done"
            /\ p3[q].err = NoErr
            /\ FilesAt(outFs, q) = FilesAt(startOut, q)
            /\ RowsAt(source_files, q) = {}
            /\ SrcLookup(source_files, q).tag = "New"
            /\ p3err # NoErr => \E x \in Paths \ {q} : p3[x].st = "err"
            /\ pc = "done" =>
                  \A x \in Paths \ {q} : InSeq(result, x) => p3[x].st = "done"

\* C7 witness: a finished run with one candidate failed and another one
\* transferred.
C7_Witness ==
    /\ pc = "done"
    /\ \E q, x \in Paths :
          /\ p3[q].outcome = "FailedToCopy"
          /\ p3[x].outcome = "Success"
          /\ RowsAt(source_files, x) # {}

\* C8: a candidate whose copy succeeded and that was then discarded as a
\* duplicate or published ends with the ledger row (path, seconds of the
\* source mtime, size, digest), so that its lookup with the unchanged source
\* metadata is Transferred.
C8_AlwaysRecorded ==
    \A q \in Paths :
        /\ pc \in {"p3", "done", "failed", "crashed"}
        /\ p3[q].st \in {"done", "err"}
        /\ ~C7_Failed(q)
        /\ p3[q].err.kind # "exists"
        => /\ p3[q].st = "done"
           /\ p3[q].outcome = "Success"
           /\ \E r \in source_files :
                 /\ r.path = q
                 /\ r.digest = digest(FileAt(inFs, q).content)
                 /\ r.size = FileSize(FileAt(inFs, q))
                 /\ pc = "p3" =>
                       /\ r.mtime = system_time_as_i64(FileAt(inFs, q).mtime)
                       /\ SrcLookup(source_files, q).tag = "Transferred"

\* C8 witness: a finished run in which one candidate was published and
\* another one discarded as a duplicate, both recorded.
C8_Witness ==
    /\ pc = "done"
    /\ \E q, x \in Paths :
          /\ p3[q].outcome = "Success" /\ p3[q].already_exists
          /\ p3[x].outcome = "Success" /\ ~p3[x].already_exists
          /\ RowsAt(source_files, q) # {}

\* C9: of the source paths phase 2 has walked, the candidate list holds
\* exactly those whose transfer lookup is New and the review list exactly
\* those whose lookup is NewMetadata; phase 3 has closures only for paths
\* that had no ledger row.
C9_Walked == {SrcOrder[i] : i \in 1..(p2idx - 1)}

C9_Classification ==
    pc \in {"p2", "p3"} =>
        /\ \A q \in C9_Walked :
              /\ InSeq(result, q) <=> SrcLookup(startSrc, q).tag = "New"
              /\ InSeq(failures, q) <=> SrcLookup(startSrc, q).tag = "NewMetadata"
        /\ \A q \in Paths \ C9_Walked : ~InSeq(result, q) /\ ~InSeq(failures, q)
        /\ \A q \in Paths : p3[q].st # "none" =>
              InSeq(result, q) /\ RowsAt(startSrc, q) = {}

\* C9 witness: phase 2 put one path on the candidate list and a path that
\* changed after its transfer on the review list.
C9_Witness ==
    /\ pc = "p3"
    /\ \E q, x \in Paths :
          /\ InSeq(result, q)
          /\ InSeq(failures, x)
          /\ RowsAt(source_files, x) # {}

\* C10 (as claimed): a call of mark_exists_in_old_target for a path that
\* already has a legacy row succeeds and leaves exactly one row for the
\* path, holding the values of that call.
C10_SecondCall(q) ==
    /\ pc = "p1"
    /\ p1[q].res.tag = "NewMetadata"
    /\ p1[q].st \in {"done", "err"}
    /\ p1[q].err.kind # "integrity"

C10_InsertOrReplace ==
    \A q \in Paths :
        C10_SecondCall(q) =>
            /\ p1[q].err = NoErr
            /\ RowsAt(old_target_files, q) =
                  {Row(q, system_time_as_i64(p1[q].res.last_modified),
                       p1[q].res.size, p1[q].digest)}


\* C11 (as claimed): a call of mark_transferred_from_source that repeats the
\* (path, digest, mtime, size) of a row the ledger already holds succeeds
\* and leaves the ledger as it was.
C11_IdempotentRecord ==
    [][ ( /\ api'.op = "transfer_record"
          /\ Row(api'.path, api'.mtime \div TicksPerSec, api'.size, api'.digest)
                \in source_files )
        => ( api'.res = TRUE /\ source_files' = source_files ) ]_vars

\* C13 (as claimed): the result of the legacy lookup tells the three cases
\* apart: no row for the path (Unknown), a row with exactly these seconds and
\* size (Current), a row with other metadata (Stale). Two lookups with the
\* same result are therefore in the same case.
C13_Case(table, path, t, size) ==
    IF RowsAt(table, path) = {} THEN "Unknown"
    ELSE IF \E r \in RowsAt(table, path) :
               r.mtime = t \div TicksPerSec /\ r.size = size
    THEN "Current"
    ELSE "Stale"

C13_TriState ==
    api.op = "legacy_lookup" =>
        \A q \in Paths, t \in Ticks, n \in SizesAsked :
            exists_in_old_target(old_target_files, q, t, n) = api.res =>
                C13_Case(old_target_files, q, t, n) =
                    C13_Case(old_target_files, api.path, api.mtime, api.size)

\* C14: the transfer lookup returns New iff source_files has no row for the
\* path, whatever old_target_files holds; Transferred iff the row's seconds
\* equal the whole seconds of the given time and its size the given size;
\* and otherwise NewMetadata carrying the row's time and size.
C14_TransferLookup ==
    api.op = "transfer_lookup" =>
        LET rows == RowsAt(source_files, api.path)
            same == {r \in rows : /\ r.mtime = api.mtime \div TicksPerSec
                                  /\ r.size = api.size}
        IN /\ api.res.tag \in {"New", "Transferred", "NewMetadata"}
           /\ api.res.tag = "New" <=> rows = {}
           /\ api.res.tag = "Transferred" <=> same # {}
           /\ api.res.tag = "NewMetadata" <=> (rows # {} /\ same = {})
           /\ api.res.tag = "NewMetadata" =>
                 \E r \in rows : /\ api.res.last_modified = r.mtime * TicksPerSec
                                 /\ api.res.size = r.size

\* C14 witness: a lookup with a time that is not a whole second found the
\* path Transferred.
C14_Witness ==
    /\ api.op = "transfer_lookup"
    /\ api.res.tag = "Transferred"
    /\ api.mtime % TicksPerSec # 0
    /\ RowsAt(old_target_files, api.path) # {}

\* C15: target_has_digest answers true iff a row of old_target_files or of
\* source_files holds the digest, under whatever path; a record call that
\* succeeded has put its digest there, one that failed has not changed what
\* is there.
C15_Stored == {r.digest : r \in old_target_files \cup source_files}

C15_TargetHasDigest ==
    /\ api.op = "target_has_digest" => (api.res <=> api.digest \in C15_Stored)
    /\ api.op \in {"legacy_record", "transfer_record"} /\ api.res = TRUE =>
          /\ api.digest \in C15_Stored
          /\ exists_in_target(old_target_files, source_files, api.digest)
    /\ \A d \in DigestsAsked :
          exists_in_target(old_target_files, source_files, d) <=> d \in C15_Stored

\* C15 witness: the digest asked for is held only by a legacy row.
C15_Witness ==
    /\ api.op = "target_has_digest"
    /\ api.res = TRUE
    /\ api.digest \notin {r.digest : r \in source_files}
    /\ source_files # {}


\* C12: no step of any run removes or changes a row of source_files, and a
\* row is only ever added for a path that had none; phase 2 writes nothing to
\* the store; and when phase 2 meets a path whose row has the seconds and the
\* size of the source file, it adds the path to neither list.
C12_Matches(q) ==
    \E r \in source_files :
        /\ r.path = q
        /\ r.mtime = FileAt(inFs, q).mtime \div TicksPerSec
        /\ r.size = Len(FileAt(inFs, q).content)

C12_LedgerImmutable ==
    [][ /\ \A r \in source_files : r \in source_files'
        /\ \A r \in source_files' \ source_files : RowsAt(source_files, r.path) = {}
        /\ pc = "p2" => /\ source_files' = source_files
                        /\ old_target_files' = old_target_files
        /\ (pc = "p2" /\ p2idx' = p2idx + 1 /\ C12_Matches(SrcOrder[p2idx])) =>
              /\ result' = result
              /\ failures' = failures ]_vars

\* C12 witness: in a later run phase 2 has walked past a path whose ledger
\* row matches its source metadata.
C12_Witness ==
    /\ runs >= 2
    /\ pc = "p2"
    /\ p2idx > Len(SrcOrder)
    /\ \E r \in source_files :
          /\ r.mtime = FileAt(inFs, r.path).mtime \div TicksPerSec
          /\ r.size = Len(FileAt(inFs, r.path).content)

\* C16: while phase 2 walks, and ever after in the run, every phase 1
\* closure has finished; a phase 3 closure exists only when phase 2 has
\* walked the whole source tree; and phase 3 has closures for exactly the
\* paths of the list phase 2 returned.
C16_PhaseOrder ==
    /\ (pc \in {"p2", "p3", "done"} \/ p2idx > 1) =>
          \A q \in Paths : p1[q].st \in {"none", "done"}
    /\ (\E q \in Paths : p3[q].st # "none") => p2idx > Len(SrcOrder)
    /\ pc = "p3" => \A q \in Paths : p3[q].st # "none" <=> InSeq(result, q)
    /\ pc \in {"p1", "p2"} => \A q \in Paths : p3[q].st = "none"
    /\ pc = "p1" => p2idx = 1 /\ result = <<>> /\ failures = <<>>

\* C16 witness: phase 3 is at work on a candidate after a phase 1 that
\* hashed two legacy files.
C16_Witness ==
    /\ pc = "p3"
    /\ \A q \in Paths : p1[q].st = "done" /\ p1[q].digest # NoDigest
    /\ \E q \in Paths : p3[q].st = "copied"

\* C17 (as claimed): once a phase 1 closure has found the digest mismatch,
\* no closure looks up, hashes or records a legacy entry any more.
C17_Detected == \E q \in Paths : p1[q].err.kind = "integrity"

C19_CrashSafe ==
    /\ prevEnd = "crashed"
    /\ pc \in {"done", "failed"}
    /\ P1Failed = {}
    /\ \A f \in outFs : f.perm = "0644"
    => /\ pc = "done"
       /\ \A q \in Paths :
             FileAt(inFs, q).mode = "ok" => RowsAt(source_files, q) # {}

\* C20: for every row of source_files, a file with that digest has been
\* published into the destination or old_target_files holds the digest; and
\* a candidate found to exist already has such a copy.
C20_HasCopy(dg) ==
    \/ \E f \in Published : digest(f.content) = dg
    \/ \E r \in old_target_files : r.digest = dg

C20_BytesInTarget ==
    /\ \A r \in source_files : C20_HasCopy(r.digest)
    /\ \A q \in Paths :
          p3[q].already_exists => C20_HasCopy(p3[q].digest)

\* C20 witness: a finished run recorded a path whose bytes are only in the
\* legacy archive.
C20_Witness ==
    /\ pc = "done"
    /\ \E r \in source_files :
          /\ \A f \in Published : digest(f.content) # r.digest
          /\ \E l \in old_target_files : l.digest = r.digest


\* C18: whatever the split into write calls, the inner writer holds exactly
\* the bytes taken so far, in order, and the hash finalise returns after
\* the whole sequence is the digest of the sequence hashed in one go.
C18_RoundTrip ==
    /\ dw.w.inner = SubSeq(dw.data, 1, dw.pos)
    /\ dw.hash # NoDigest =>
          /\ dw.hash = digest(dw.data)
          /\ dw.w.inner = dw.data

\* C18 witness: a sequence finalised after a short write and a write of
\* no bytes.
C18_Witness ==
    /\ dw.hash # NoDigest
    /\ Len(dw.data) >= 2
    /\ dw.short
    /\ dw.zero

\* the candidates that hold the staging file f
Holders(f) == {q \in Paths : writer[q].temp_path = f.name}

\* C21: in every state of phase 3, a file the phase put at a destination
\* path holds all the bytes of its source file; while a candidate is being
\* copied its bytes are in its staging file only, which holds what was read
\* so far; a candidate whose copy failed has no staging file and nothing
\* published; and no staging file is held by two candidates.
C21_AtomicPlacement ==
    /\ \A f \in outFs \ startOut :
          /\ p3[f.path].st \in {"published", "done"}
          /\ f.content = FileAt(inFs, f.path).content
    /\ \A q \in Paths :
          p3[q].st = "opened" =>
             /\ FilesAt(outFs, q) \subseteq startOut
             /\ \E f \in temp_dir :
                   /\ f.name = writer[q].temp_path
                   /\ f.content = SubSeq(FileAt(inFs, q).content, 1, writer[q].pos)
    /\ \A q \in Paths :
          p3[q].outcome = "FailedToCopy" =>
             /\ FilesAt(outFs, q) \subseteq startOut
             /\ writer[q].temp_path = 0
    /\ \A f \in temp_dir : Cardinality(Holders(f)) = 1
    /\ \A f, g \in temp_dir : f.name = g.name => f = g

\* C21 witness: one candidate is half copied, its staging file holding a
\* proper, non-empty part of the source, while the file of the other
\* candidate is already at its destination path.
C21_Witness ==
    /\ pc = "p3"
    /\ \E q \in Paths, f \in temp_dir :
          /\ p3[q].st = "opened"
          /\ f.name = writer[q].temp_path
          /\ f.content # <<>>
          /\ f.content # FileAt(inFs, q).content
          /\ \E g \in outFs \ startOut : g.path # q

====
